---- MODULE Spec2Model ----
(***************************************************************************)
(* ULG -> KML conversion of the PX4 simulation configurator.               *)
(*   src/sim.py : external converter (ulog2kml / python -m pyulog.ulog2kml) *)
(*                followed by the in-process fallback decoder               *)
(*   src/v3.py  : locally vendored pyulog library (convert_ulog2kml)        *)
(* Three parts share the module:                                           *)
(*   SpecExtract : the sample loop of _fallback_ulog_to_kml, step by step  *)
(*   Spec/SpecSeq: the conversion workers acting on the output directory   *)
(*   SpecImport  : _import_coords, the import of a .plan/.kml home position *)
(***************************************************************************)
EXTENDS Integers, Sequences, FiniteSets, TLC

\* ------------------------------------------------------------------ bounds
MaxSeq == 3
MaxLen == 4
MaxStride == 3
MaxConv == 3
PreMax == 2

\* ------------------------------------------------------- program constants
DefaultStride == 5
GpsScale == 10000000

\* --------------------------------------------------------------- raw values
\* An element of a pyulog field array, or the result of f(): a tagged record.
None == [k |-> "none", n |-> 0, d |-> 1]
Num(v) == [k |-> "num", n |-> v, d |-> 1]
NaN == [k |-> "nan", n |-> 0, d |-> 1]
Inf == [k |-> "inf", n |-> 0, d |-> 1]
Str == [k |-> "str", n |-> 0, d |-> 1]
Zero == Num(0)

VARIABLES
    files,      \* the output directory: path -> content
    pc,         \* per worker: position inside _convert_ulg_to_kml / run
    prog,       \* per worker: which program runs the conversion (sim, v3)
    cmd,        \* per worker: sim.py's cmd (ulog2kml or python -m pyulog.ulog2kml)
    conv,       \* per worker: serial number of its current conversion
    p,          \* per worker: returncode of the finished subprocess
    cand,       \* per worker: i of _unique_name
    tgt,        \* per worker: tgt
    data,       \* per worker: bytes read from track.kml on the copy path
    ulog,       \* per worker: data_list of the log the fallback decoded
    trace,      \* per worker: tiers attempted by the current conversion
    events,     \* per worker: _append_log lines of the current conversion
    status,     \* per worker: what _set_k_status / messagebox reported
    btn,        \* state of convert_btn
    nconv,      \* conversions started so far
    reports     \* every _set_k_status call, in order

VARIABLES
    ex_pc,      \* position inside _fallback_ulog_to_kml
    ex_list,    \* ulog.data_list: sequence of [name, lat, lon, alt]
    ex_stride,  \* downsample
    ex_rec,     \* selected arrays [found, lat, lon, alt, scale]
    ex_i,       \* loop index (0-based, as in the source)
    ex_last,    \* last
    ex_coords   \* coords: sequence of <<lo, la, al>>

VARIABLES
    im_pc,      \* position inside _import_coords
    im_prog,    \* which program runs the import (sim, v3)
    im_doc,     \* the file picked in the dialog
    im_lat,     \* lat
    im_lon,     \* lon
    im_log,     \* _append_log lines of the current import
    im_res,     \* how the last import ended
    lat_var,    \* text of the latitude field
    lon_var     \* text of the longitude field

VARIABLES
    st_prog,    \* which program the window belongs to (sim, v3)
    proc,       \* sim.py: self.proc
    is_running, \* v3.py: self.is_running
    start_btn,  \* state of start_btn
    stop_btn,   \* state of stop_btn
    seqs,       \* v3.py: the threads started by _start and _stop, in order
    home,       \* the home position the simulation was given
    st_res,     \* how the last _start or _stop call ended
    st_log      \* _append_log lines of the last _start or _stop call

stvars == <<st_prog, proc, is_running, start_btn, stop_btn, seqs, home, st_res, st_log>>
imvars == <<im_pc, im_prog, im_doc, im_lat, im_lon, im_log, im_res, lat_var, lon_var>>
exvars == <<ex_pc, ex_list, ex_stride, ex_rec, ex_i, ex_last, ex_coords>>
cvars == <<files, pc, prog, cmd, conv, p, cand, tgt, data, ulog, trace, events,
           status, btn, nconv, reports>>
vars == <<files, pc, prog, cmd, conv, p, cand, tgt, data, ulog, trace, events,
          status, btn, nconv, reports,
          ex_pc, ex_list, ex_stride, ex_rec, ex_i, ex_last, ex_coords,
          im_pc, im_prog, im_doc, im_lat, im_lon, im_log, im_res, lat_var, lon_var,
          st_prog, proc, is_running, start_btn, stop_btn, seqs, home, st_res, st_log>>

\* float(x)/s, None unless the quotient is finite (a rational n/d here).
f_nofinite(x, s) ==
    IF x.k = "str" THEN None
    ELSE IF x.k = "num" THEN [k |-> "num", n |-> x.n, d |-> s] ELSE x

f(x, s) ==
    IF x.k = "num" THEN [k |-> "num", n |-> x.n, d |-> s] ELSE None

IsFinite(v) == v.k = "num"

\* A dataset of ulog.data_list; has* is FALSE when rec.get(...) gives None.
NoData == [name |-> "none", haslat |-> FALSE, haslon |-> FALSE, hasalt |-> FALSE,
           lat |-> <<>>, lon |-> <<>>, alt |-> <<>>]

\* Topic selection: first vehicle_global_position dataset, else the first
\* vehicle_gps_position dataset with scale 1e7.
FirstNamed(list, name) ==
    IF \E j \in 1..Len(list) : list[j].name = name
    THEN LET j == CHOOSE j \in 1..Len(list) :
                    /\ list[j].name = name
                    /\ \A h \in 1..(j-1) : list[h].name # name
         IN  [found |-> TRUE, data |-> list[j]]
    ELSE [found |-> FALSE, data |-> NoData]

NoRec == [found |-> FALSE, topic |-> "none", haslat |-> FALSE, haslon |-> FALSE, hasalt |-> FALSE,
          lat |-> <<>>, lon |-> <<>>, alt |-> <<>>, scale |-> 1]

SelectTopic_gpsFirst(list) ==
    LET g == FirstNamed(list, "vehicle_global_position")
        gp == FirstNamed(list, "vehicle_gps_position")
        pick(r, topic, sc) ==
            [found |-> TRUE, topic |-> topic,
             haslat |-> r.haslat, haslon |-> r.haslon, hasalt |-> r.hasalt,
             lat |-> r.lat, lon |-> r.lon, alt |-> r.alt, scale |-> sc]
    IN  IF gp.found THEN pick(gp.data, "vehicle_gps_position", GpsScale)
        ELSE IF g.found THEN pick(g.data, "vehicle_global_position", 1)
        ELSE NoRec

SelectTopic(list) ==
    LET g == FirstNamed(list, "vehicle_global_position")
        gp == FirstNamed(list, "vehicle_gps_position")
        pick(r, topic, sc) ==
            [found |-> TRUE, topic |-> topic,
             haslat |-> r.haslat, haslon |-> r.haslon, hasalt |-> r.hasalt,
             lat |-> r.lat, lon |-> r.lon, alt |-> r.alt, scale |-> sc]
    IN  IF g.found THEN pick(g.data, "vehicle_global_position", 1)
        ELSE IF gp.found THEN pick(gp.data, "vehicle_gps_position", GpsScale)
        ELSE NoRec

\* rec is None or lat is None or lon is None
NoPositionTopic(rec) == ~rec.found \/ ~rec.haslat \/ ~rec.haslon

\* One iteration of `for i in range(len(lat))` on the loop state
\* st = [last, coords].
LoopBody_resetOnDrop(rec, S, i, st) ==
    IF i - st.last < S THEN st
    ELSE LET la == f(rec.lat[i+1], rec.scale)
             lo == f(rec.lon[i+1], rec.scale)
             al0 == IF rec.hasalt THEN f(rec.alt[i+1], 1) ELSE Zero
             al == IF al0 = None THEN Zero ELSE al0
         IN  IF la = None \/ lo = None THEN [st EXCEPT !.last = i]
             ELSE [last |-> i, coords |-> Append(st.coords, <<lo, la, al>>)]

LoopBody_noLast(rec, S, i, st) ==
    IF i - st.last < S THEN st
    ELSE LET la == f(rec.lat[i+1], rec.scale)
             lo == f(rec.lon[i+1], rec.scale)
             al0 == IF rec.hasalt THEN f(rec.alt[i+1], 1) ELSE Zero
             al == IF al0 = None THEN Zero ELSE al0
         IN  IF la = None \/ lo = None THEN st
             ELSE [last |-> st.last, coords |-> Append(st.coords, <<lo, la, al>>)]

LoopBody(rec, S, i, st) ==
    IF i - st.last < S THEN st
    ELSE LET la == f(rec.lat[i+1], rec.scale)
             lo == f(rec.lon[i+1], rec.scale)
             al0 == IF rec.hasalt THEN f(rec.alt[i+1], 1) ELSE Zero
             al == IF al0 = None THEN Zero ELSE al0
         IN  IF la = None \/ lo = None THEN st
             ELSE [last |-> i, coords |-> Append(st.coords, <<lo, la, al>>)]

LoopInit(S) == [last |-> 0 - S, coords |-> <<>>]

RECURSIVE LoopFrom(_, _, _, _)
LoopFrom(rec, S, i, st) ==
    IF i >= Len(rec.lat) THEN st
    ELSE LoopFrom(rec, S, i + 1, LoopBody(rec, S, i, st))

\* The whole decoder up to (not including) kml.save: what it raises or returns.
Extract_noEmptyCheck(list, S) ==
    LET rec == SelectTopic(list)
    IN  IF NoPositionTopic(rec) THEN [status |-> "NoPositionTopic", coords |-> <<>>]
        ELSE [status |-> "ok", coords |-> LoopFrom(rec, S, 0, LoopInit(S)).coords]

Extract(list, S) ==
    LET rec == SelectTopic(list)
    IN  IF NoPositionTopic(rec) THEN [status |-> "NoPositionTopic", coords |-> <<>>]
        ELSE LET st == LoopFrom(rec, S, 0, LoopInit(S))
             IN  IF st.coords = <<>> THEN [status |-> "EmptyTrack", coords |-> <<>>]
                 ELSE [status |-> "ok", coords |-> st.coords]

\* ------------------------------------------------------ inputs of the decoder
\* A sample is "ok" or has one non-finite channel. Finite latitudes carry the
\* source index (LatBase + i), so a Track element names the index it came from.
Kinds == {"ok", "badlat", "badlon", "badalt"}
LatOf(kind, i) == IF kind = "badlat" THEN NaN ELSE Num(100 + i)
LonOf(kind, i) == IF kind = "badlon" THEN Inf ELSE Num(200 + i)
AltOf(kind, i) == IF kind = "badalt" THEN Str ELSE Num(300 + i)
SourceIndex(c) == c[2].n - 100

Dataset(name, kinds, haslat, hasalt) ==
    [name |-> name, haslat |-> haslat, haslon |-> TRUE, hasalt |-> hasalt,
     lat |-> IF haslat THEN [j \in 1..Len(kinds) |-> LatOf(kinds[j], j - 1)] ELSE <<>>,
     lon |-> [j \in 1..Len(kinds) |-> LonOf(kinds[j], j - 1)],
     alt |-> IF hasalt THEN [j \in 1..Len(kinds) |-> AltOf(kinds[j], j - 1)] ELSE <<>>]

KindSeqs == UNION {[1..n -> Kinds] : n \in 0..MaxLen}

\* The other topic of a two-topic log: one finite sample, recognisable values.
OtherKinds == <<"ok">>

Layouts == {"gpos", "gps", "gps_gpos", "none", "gpos_nolat", "gpos_nolat_gps"}

DataList(layout, kinds, hasalt) ==
    CASE layout = "gpos" ->
            <<Dataset("vehicle_global_position", kinds, TRUE, hasalt)>>
      [] layout = "gps" ->
            <<Dataset("vehicle_gps_position", kinds, TRUE, hasalt)>>
      [] layout = "gps_gpos" ->
            <<Dataset("vehicle_gps_position", OtherKinds, TRUE, hasalt),
              Dataset("vehicle_global_position", kinds, TRUE, hasalt)>>
      [] layout = "none" ->
            <<Dataset("vehicle_attitude", kinds, TRUE, hasalt)>>
      [] layout = "gpos_nolat" ->
            <<Dataset("vehicle_global_position", kinds, FALSE, hasalt)>>
      [] layout = "gpos_nolat_gps" ->
            <<Dataset("vehicle_global_position", kinds, FALSE, hasalt),
              Dataset("vehicle_gps_position", OtherKinds, TRUE, hasalt)>>

\* The 12-sample scenario: vehicle_global_position, non-finite longitude at
\* index 5 only, default stride.
ScenarioKinds == [j \in 1..12 |-> IF j - 1 = 5 THEN "badlon" ELSE "ok"]
ScenarioList == DataList("gpos", ScenarioKinds, TRUE)

ExIdle ==
    /\ ex_pc = "off"
    /\ ex_list = <<>>
    /\ ex_stride = DefaultStride
    /\ ex_rec = NoRec
    /\ ex_i = 0
    /\ ex_last = 0
    /\ ex_coords = <<>>

ExEntry ==
    /\ ex_pc = "select"
    /\ \/ \E layout \in Layouts, kinds \in KindSeqs, hasalt \in BOOLEAN :
            /\ ex_list = DataList(layout, kinds, hasalt)
            /\ ex_stride \in 1..MaxStride
       \/ /\ ex_list = ScenarioList
          /\ ex_stride = DefaultStride
    /\ ex_rec = NoRec
    /\ ex_i = 0
    /\ ex_last = 0
    /\ ex_coords = <<>>

\* lines 147-155: pick the topic, or raise "No GPS/global position topics".
ExSelect ==
    /\ ex_pc = "select"
    /\ ex_rec' = SelectTopic(ex_list)
    /\ IF NoPositionTopic(ex_rec')
       THEN /\ ex_pc' = "NoPositionTopic"
            /\ UNCHANGED <<ex_last, ex_coords>>
       ELSE /\ ex_pc' = "loop"
            /\ ex_last' = LoopInit(ex_stride).last
            /\ ex_coords' = LoopInit(ex_stride).coords
    /\ ex_i' = 0
    /\ UNCHANGED <<ex_list, ex_stride>>
    /\ UNCHANGED <<cvars, imvars, stvars>>

\* lines 162-167: one iteration of the sample loop.
ExLoopStep ==
    /\ ex_pc = "loop"
    /\ ex_i < Len(ex_rec.lat)
    /\ LET st == LoopBody(ex_rec, ex_stride, ex_i,
                          [last |-> ex_last, coords |-> ex_coords])
       IN  /\ ex_last' = st.last
           /\ ex_coords' = st.coords
    /\ ex_i' = ex_i + 1
    /\ UNCHANGED <<ex_pc, ex_list, ex_stride, ex_rec>>
    /\ UNCHANGED <<cvars, imvars, stvars>>

\* line 168: the loop is over; an empty coords raises "No valid GPS samples".
ExFinish ==
    /\ ex_pc = "loop"
    /\ ex_i >= Len(ex_rec.lat)
    /\ ex_pc' = IF ex_coords = <<>> THEN "EmptyTrack" ELSE "ok"
    /\ UNCHANGED <<ex_list, ex_stride, ex_rec, ex_i, ex_last, ex_coords>>
    /\ UNCHANGED <<cvars, imvars, stvars>>

NextExtract == ExSelect \/ ExLoopStep \/ ExFinish

\* ------------------------------------------------------ the output directory
Workers == {1, 2}
Progs == {"sim", "v3"}
NameMax == PreMax + MaxConv

\* track.kml, and <stem>.kml (i = 0) or <stem>-i.kml (i >= 1)
TrackKml == <<"track", 0>>
Canon(i) == <<"stem", i>>
NoPath == <<"none", 0>>
Paths == {TrackKml} \cup {Canon(i) : i \in 0..NameMax}

\* Content of a path: who wrote it (0: it was there before any conversion),
\* which tier wrote it, and whether the write ran to its end. A track.kml
\* found in the directory is an earlier run's tier-1 product.
Absent == [by |-> 0 - 1, tier |-> 0, whole |-> FALSE]
PreExisting == [by |-> 0, tier |-> 0, whole |-> TRUE]
StaleTrack == [by |-> 0, tier |-> 1, whole |-> TRUE]
Written(c, t, whole) == [by |-> c, tier |-> t, whole |-> whole]
Exists(fs, path) == fs[path] # Absent

\* _unique_name, one exists() test at a time: i = 0 tests base itself.
unique_name_nocheck(fs, i) == [done |-> TRUE, path |-> Canon(i), i |-> i]

unique_name(fs, i) ==
    IF ~Exists(fs, Canon(i)) THEN [done |-> TRUE, path |-> Canon(i), i |-> i]
    ELSE [done |-> FALSE, path |-> NoPath, i |-> i + 1]

\* What subprocess.run(cmd, cwd=out_dir) can do: fail to start, or end with a
\* return code having written track.kml wholly, partly or not at all.
ToolOutcomes ==
    {[raised |-> TRUE, rc |-> 1, wrote |-> "none"]}
    \cup {[raised |-> FALSE, rc |-> 0, wrote |-> x] : x \in {"none", "whole"}}
    \cup {[raised |-> FALSE, rc |-> 1, wrote |-> x] : x \in {"none", "part"}}

\* Logs handed to the fallback decoder.
ConvLogs ==
    {DataList("gpos", <<"ok">>, TRUE),
     DataList("gpos", <<>>, TRUE),
     DataList("gpos", <<"badlat", "badlon">>, TRUE),
     DataList("none", <<"ok">>, TRUE),
     DataList("gps", <<"ok">>, FALSE),
     ScenarioList}

NoStatus == [conv |-> 0, kind |-> "none", name |-> NoPath, tier |-> 0, reason |-> ""]
St(w, kind, name, tier, reason) ==
    [conv |-> conv[w], kind |-> kind, name |-> name, tier |-> tier, reason |-> reason]

ConvIdle ==
    /\ files = [q \in Paths |-> Absent]
    /\ pc = [w \in Workers |-> "off"]
    /\ prog = [w \in Workers |-> "sim"]
    /\ cmd = [w \in Workers |-> "none"]
    /\ conv = [w \in Workers |-> 0]
    /\ p = [w \in Workers |-> 0]
    /\ cand = [w \in Workers |-> 0]
    /\ tgt = [w \in Workers |-> NoPath]
    /\ data = [w \in Workers |-> Absent]
    /\ ulog = [w \in Workers |-> <<>>]
    /\ trace = [w \in Workers |-> <<>>]
    /\ events = [w \in Workers |-> <<>>]
    /\ status = [w \in Workers |-> NoStatus]
    /\ btn = "normal"
    /\ nconv = 0
    /\ reports = <<>>

\* The directory holds any files the user left there: track.kml or not, and
\* any of the first PreMax canonical names.
ConvInit ==
    /\ files \in {fs \in [Paths -> {Absent, PreExisting, StaleTrack}] :
                     /\ fs[TrackKml] \in {Absent, StaleTrack}
                     /\ \A i \in 0..NameMax :
                           fs[Canon(i)] \in
                              IF i < PreMax THEN {Absent, PreExisting} ELSE {Absent}}
    /\ pc = [w \in Workers |-> "idle"]
    /\ prog = [w \in Workers |-> "sim"]
    /\ cmd = [w \in Workers |-> "none"]
    /\ conv = [w \in Workers |-> 0]
    /\ p = [w \in Workers |-> 0]
    /\ cand = [w \in Workers |-> 0]
    /\ tgt = [w \in Workers |-> NoPath]
    /\ data = [w \in Workers |-> Absent]
    /\ ulog = [w \in Workers |-> <<>>]
    /\ trace = [w \in Workers |-> <<>>]
    /\ events = [w \in Workers |-> <<>>]
    /\ status = [w \in Workers |-> NoStatus]
    /\ btn = "normal"
    /\ nconv = 0
    /\ reports = <<>>

\* _set_k_status(text, ok): the status shown and recorded.
Report(w, st) ==
    /\ status' = [status EXCEPT ![w] = st]
    /\ reports' = Append(reports, [kind |-> st.kind, name |-> st.name])

\* except Exception as e (sim.py 780-781, v3.py 1431-1434): the error status;
\* v3.py also logs an [ERROR] line.
Fail_advance(w, tier, reason) ==
    /\ Report(w, St(w, "error", NoPath, tier, reason))
    /\ events' = [events EXCEPT ![w] =
                     IF prog[w] = "v3" THEN Append(@, "error") ELSE @]
    /\ pc' = [pc EXCEPT ![w] = IF tier = 1 THEN "t3_log" ELSE "finally"]

Fail(w, tier, reason) ==
    /\ Report(w, St(w, "error", NoPath, tier, reason))
    /\ events' = [events EXCEPT ![w] =
                     IF prog[w] = "v3" THEN Append(@, "error") ELSE @]
    /\ pc' = [pc EXCEPT ![w] = "finally"]

\* _mk_button: the ways the user triggers a button. A click goes through the
\* ttk command, which a disabled button ignores; <Key-Return> and <Key-space>
\* are bound on the widget and call invoke() whatever its state, once the
\* button holds the keyboard focus.
UiEvents == {"click", "Return", "space"}
Invokes(ev, state) == ev = "click" => state = "normal"

\* _convert_ulg_to_kml up to threading.Thread(...).start(); the handler has no
\* test of a conversion being under way. w is the thread it starts.
Convert(w) ==
    /\ pc[w] = "idle"
    /\ \E ev \in UiEvents : Invokes(ev, btn)
    /\ nconv < MaxConv
    /\ \E pr \in Progs, ulgOk \in BOOLEAN, outOk \in BOOLEAN, rtOk \in BOOLEAN,
          hasTool \in BOOLEAN :
         IF ulgOk /\ outOk /\ rtOk
         THEN /\ nconv' = nconv + 1
              /\ conv' = [conv EXCEPT ![w] = nconv + 1]
              /\ prog' = [prog EXCEPT ![w] = pr]
              /\ cmd' = [cmd EXCEPT ![w] =
                            IF pr = "v3" THEN "none"
                            ELSE IF hasTool THEN "ulog2kml" ELSE "python -m pyulog.ulog2kml"]
              /\ status' = [status EXCEPT ![w] =
                               [NoStatus EXCEPT !.kind = "converting", !.conv = nconv + 1]]
              /\ btn' = "disabled"
              /\ pc' = [pc EXCEPT ![w] = IF pr = "sim" THEN "t1_run" ELSE "t2_import"]
              /\ UNCHANGED <<files, p, cand, tgt, data, ulog, trace, events, reports>>
         ELSE /\ status' = [status EXCEPT ![w] =
                               [NoStatus EXCEPT !.kind = "rejected",
                                    !.reason = IF ~ulgOk THEN "Missing ULG"
                                               ELSE IF ~outOk THEN "Missing output folder"
                                               ELSE "Missing runtime"]]
              /\ UNCHANGED <<files, pc, prog, cmd, conv, p, cand, tgt, data, ulog,
                             trace, events, btn, nconv, reports>>
    /\ UNCHANGED <<exvars, imvars, stvars>>

\* sim.py 764: p = subprocess.run(cmd, cwd=out_dir, ...)
T1Run(w) ==
    /\ pc[w] = "t1_run"
    /\ trace' = [trace EXCEPT ![w] = Append(@, 1)]
    /\ \E out \in ToolOutcomes :
         IF out.raised
         THEN /\ Fail(w, 1, "subprocess")
              /\ UNCHANGED <<files, p>>
         ELSE /\ p' = [p EXCEPT ![w] = out.rc]
              /\ files' = IF out.wrote = "none" THEN files
                          ELSE [files EXCEPT ![TrackKml] =
                                   Written(conv[w], 1, out.wrote = "whole")]
              /\ pc' = [pc EXCEPT ![w] = "t1_check"]
              /\ UNCHANGED <<status, reports, events>>
    /\ UNCHANGED <<prog, cmd, conv, cand, tgt, data, ulog, btn, nconv>>
    /\ UNCHANGED <<exvars, imvars, stvars>>

\* sim.py 765: if p.returncode==0 and (Path(out_dir)/"track.kml").exists()
Tier1Succeeded_rcOnly(rc, fs) == rc = 0

Tier1Succeeded(rc, fs) == rc = 0 /\ Exists(fs, TrackKml)

T1Check(w) ==
    /\ pc[w] = "t1_check"
    /\ pc' = [pc EXCEPT ![w] = IF Tier1Succeeded(p[w], files) THEN "t1_name" ELSE "t3_log"]
    /\ cand' = [cand EXCEPT ![w] = 0]
    /\ UNCHANGED <<files, prog, cmd, conv, p, tgt, data, ulog, trace, events,
                   status, btn, nconv, reports>>
    /\ UNCHANGED <<exvars, imvars, stvars>>

\* _unique_name (sim.py 733-739, v3.py 1361-1370): one exists() test
AfterName(at) ==
    CASE at = "t1_name" -> "t1_rename"
      [] at = "t2_name" -> "t2_conv"
      [] at = "t3_name" -> "t3_decode"

NameStep(w) ==
    /\ pc[w] \in {"t1_name", "t2_name", "t3_name"}
    /\ LET r == unique_name(files, cand[w])
       IN  IF r.done
           THEN /\ tgt' = [tgt EXCEPT ![w] = r.path]
                /\ pc' = [pc EXCEPT ![w] = AfterName(pc[w])]
                /\ UNCHANGED cand
           ELSE /\ cand' = [cand EXCEPT ![w] = r.i]
                /\ UNCHANGED <<tgt, pc>>
    /\ UNCHANGED <<files, prog, cmd, conv, p, data, ulog, trace, events,
                   status, btn, nconv, reports>>
    /\ UNCHANGED <<exvars, imvars, stvars>>

\* sim.py 768-769: produced.rename(tgt); POSIX rename replaces an existing tgt.
\* A failed rename (track.kml gone, or an OS error) enters the copy path.
T1Rename_keepsTrack(w) ==
    /\ pc[w] = "t1_rename"
    /\ \/ /\ Exists(files, TrackKml)
          /\ files' = [files EXCEPT ![tgt[w]] = files[TrackKml]]
          /\ Report(w, St(w, "ok", tgt[w], 1, "KML created"))
          /\ pc' = [pc EXCEPT ![w] = "finally"]
       \/ /\ pc' = [pc EXCEPT ![w] = "t1_copy_read"]
          /\ UNCHANGED <<files, status, reports>>
    /\ UNCHANGED <<prog, cmd, conv, p, cand, tgt, data, ulog, trace, events, btn, nconv>>
    /\ UNCHANGED <<exvars, imvars, stvars>>

T1Rename(w) ==
    /\ pc[w] = "t1_rename"
    /\ \/ /\ Exists(files, TrackKml)
          /\ files' = [files EXCEPT ![tgt[w]] = files[TrackKml], ![TrackKml] = Absent]
          /\ Report(w, St(w, "ok", tgt[w], 1, "KML created"))
          /\ pc' = [pc EXCEPT ![w] = "finally"]
       \/ /\ pc' = [pc EXCEPT ![w] = "t1_copy_read"]
          /\ UNCHANGED <<files, status, reports>>
    /\ UNCHANGED <<prog, cmd, conv, p, cand, tgt, data, ulog, trace, events, btn, nconv>>
    /\ UNCHANGED <<exvars, imvars, stvars>>

\* sim.py 770: data = produced.read_bytes()
T1CopyRead(w) ==
    /\ pc[w] = "t1_copy_read"
    /\ \/ /\ Exists(files, TrackKml)
          /\ data' = [data EXCEPT ![w] = files[TrackKml]]
          /\ pc' = [pc EXCEPT ![w] = "t1_copy_write"]
          /\ UNCHANGED <<status, reports, events>>
       \/ /\ Fail(w, 1, "read_bytes")
          /\ UNCHANGED data
    /\ UNCHANGED <<files, prog, cmd, conv, p, cand, tgt, ulog, trace, btn, nconv>>
    /\ UNCHANGED <<exvars, imvars, stvars>>

\* sim.py 770: tgt.write_bytes(data); a failing write leaves tgt as it was or
\* truncated.
T1CopyWrite(w) ==
    /\ pc[w] = "t1_copy_write"
    /\ \/ /\ files' = [files EXCEPT ![tgt[w]] = data[w]]
          /\ pc' = [pc EXCEPT ![w] = "t1_unlink"]
          /\ UNCHANGED <<status, reports, events>>
       \/ /\ \E left \in {files[tgt[w]], [data[w] EXCEPT !.whole = FALSE]} :
                files' = [files EXCEPT ![tgt[w]] = left]
          /\ Fail(w, 1, "write_bytes")
    /\ UNCHANGED <<prog, cmd, conv, p, cand, tgt, data, ulog, trace, btn, nconv>>
    /\ UNCHANGED <<exvars, imvars, stvars>>

\* sim.py 771-773: produced.unlink() with its failure swallowed, then the
\* success status.
T1Unlink(w) ==
    /\ pc[w] = "t1_unlink"
    /\ \/ files' = [files EXCEPT ![TrackKml] = Absent]
       \/ UNCHANGED files
    /\ Report(w, St(w, "ok", tgt[w], 1, "KML created"))
    /\ pc' = [pc EXCEPT ![w] = "finally"]
    /\ UNCHANGED <<prog, cmd, conv, p, cand, tgt, data, ulog, trace, events, btn, nconv>>
    /\ UNCHANGED <<exvars, imvars, stvars>>

\* sim.py 776: the "[INFO] ulog2kml failed; running fallback converter" line,
\* a fixed text: p.stdout and p.stderr are captured but appear in no log line.
T3Log_silent(w) ==
    /\ pc[w] = "t3_log"
    /\ trace' = [trace EXCEPT ![w] = Append(@, 3)]
    /\ cand' = [cand EXCEPT ![w] = 0]
    /\ pc' = [pc EXCEPT ![w] = "t3_name"]
    /\ UNCHANGED <<files, prog, cmd, conv, p, tgt, data, ulog, events, status, btn, nconv, reports>>
    /\ UNCHANGED <<exvars, imvars, stvars>>

T3Log(w) ==
    /\ pc[w] = "t3_log"
    /\ events' = [events EXCEPT ![w] = Append(@, "fallback")]
    /\ trace' = [trace EXCEPT ![w] = Append(@, 3)]
    /\ cand' = [cand EXCEPT ![w] = 0]
    /\ pc' = [pc EXCEPT ![w] = "t3_name"]
    /\ UNCHANGED <<files, prog, cmd, conv, p, tgt, data, ulog, status, btn, nconv, reports>>
    /\ UNCHANGED <<exvars, imvars, stvars>>

\* sim.py 778 -> 144-168: ULog(ulg_path), topic selection, the sample loop and
\* the empty check of _fallback_ulog_to_kml.
T3Decode(w) ==
    /\ pc[w] = "t3_decode"
    /\ \/ /\ Fail(w, 3, "Malformed")
          /\ UNCHANGED ulog
       \/ \E log \in ConvLogs :
            /\ ulog' = [ulog EXCEPT ![w] = log]
            /\ LET r == Extract(log, DefaultStride)
               IN  IF r.status # "ok" THEN Fail(w, 3, r.status)
                   ELSE /\ pc' = [pc EXCEPT ![w] = "t3_save"]
                        /\ UNCHANGED <<status, reports, events>>
    /\ UNCHANGED <<files, prog, cmd, conv, p, cand, tgt, data, trace, btn, nconv>>
    /\ UNCHANGED <<exvars, imvars, stvars>>

\* sim.py 169-172 and 779: kml.save(out_path), then the success status; a
\* failing save leaves out_path as it was or partly written.
T3Save(w) ==
    /\ pc[w] = "t3_save"
    /\ \/ /\ files' = [files EXCEPT ![tgt[w]] = Written(conv[w], 3, TRUE)]
          /\ Report(w, St(w, "ok", tgt[w], 3, "KML created (fallback)"))
          /\ pc' = [pc EXCEPT ![w] = "finally"]
          /\ UNCHANGED events
       \/ /\ \E left \in {files[tgt[w]], Written(conv[w], 3, FALSE)} :
                files' = [files EXCEPT ![tgt[w]] = left]
          /\ Fail(w, 3, "save")
    /\ UNCHANGED <<prog, cmd, conv, p, cand, tgt, data, ulog, trace, btn, nconv>>
    /\ UNCHANGED <<exvars, imvars, stvars>>

\* v3.py 1418-1422: the "[TOOL] Importing local pyulog" line, then the import;
\* a failing import adds the [ERROR] line of the except branch.
T2Import(w) ==
    /\ pc[w] = "t2_import"
    /\ trace' = [trace EXCEPT ![w] = Append(@, 2)]
    /\ cand' = [cand EXCEPT ![w] = 0]
    /\ \/ /\ events' = [events EXCEPT ![w] = Append(@, "importing")]
          /\ pc' = [pc EXCEPT ![w] = "t2_name"]
          /\ UNCHANGED <<status, reports>>
       \/ /\ Report(w, St(w, "error", NoPath, 2, "import"))
          /\ events' = [events EXCEPT ![w] = @ \o <<"importing", "error">>]
          /\ pc' = [pc EXCEPT ![w] = "finally"]
    /\ UNCHANGED <<files, prog, cmd, conv, p, tgt, data, ulog, btn, nconv>>
    /\ UNCHANGED <<exvars, imvars, stvars>>

\* v3.py 1426-1430: convert_ulog2kml(ulg, str(tgt)), then the success status
T2Conv(w) ==
    /\ pc[w] = "t2_conv"
    /\ \/ /\ files' = [files EXCEPT ![tgt[w]] = Written(conv[w], 2, TRUE)]
          /\ Report(w, St(w, "ok", tgt[w], 2, "KML created"))
          /\ events' = [events EXCEPT ![w] = Append(@, "success")]
          /\ pc' = [pc EXCEPT ![w] = "finally"]
       \/ /\ \E left \in {files[tgt[w]], Written(conv[w], 2, FALSE)} :
                files' = [files EXCEPT ![tgt[w]] = left]
          /\ Fail(w, 2, "convert_ulog2kml")
    /\ UNCHANGED <<prog, cmd, conv, p, cand, tgt, data, ulog, trace, btn, nconv>>
    /\ UNCHANGED <<exvars, imvars, stvars>>

\* finally: convert_btn back to NORMAL; the thread ends.
Finally_noEnable(w) ==
    /\ pc[w] = "finally"
    /\ pc' = [pc EXCEPT ![w] = "idle"]
    /\ p' = [p EXCEPT ![w] = 0]
    /\ cand' = [cand EXCEPT ![w] = 0]
    /\ tgt' = [tgt EXCEPT ![w] = NoPath]
    /\ data' = [data EXCEPT ![w] = Absent]
    /\ ulog' = [ulog EXCEPT ![w] = <<>>]
    /\ trace' = [trace EXCEPT ![w] = <<>>]
    /\ events' = [events EXCEPT ![w] = <<>>]
    /\ cmd' = [cmd EXCEPT ![w] = "none"]
    /\ prog' = [prog EXCEPT ![w] = "sim"]
    /\ UNCHANGED <<files, conv, status, btn, nconv, reports>>
    /\ UNCHANGED <<exvars, imvars, stvars>>

Finally(w) ==
    /\ pc[w] = "finally"
    /\ btn' = "normal"
    /\ pc' = [pc EXCEPT ![w] = "idle"]
    /\ p' = [p EXCEPT ![w] = 0]
    /\ cand' = [cand EXCEPT ![w] = 0]
    /\ tgt' = [tgt EXCEPT ![w] = NoPath]
    /\ data' = [data EXCEPT ![w] = Absent]
    /\ ulog' = [ulog EXCEPT ![w] = <<>>]
    /\ trace' = [trace EXCEPT ![w] = <<>>]
    /\ events' = [events EXCEPT ![w] = <<>>]
    /\ cmd' = [cmd EXCEPT ![w] = "none"]
    /\ prog' = [prog EXCEPT ![w] = "sim"]
    /\ UNCHANGED <<files, conv, status, nconv, reports>>
    /\ UNCHANGED <<exvars, imvars, stvars>>

Run(w) ==
    \/ T1Run(w)
    \/ T1Check(w)
    \/ NameStep(w)
    \/ T1Rename(w)
    \/ T1CopyRead(w)
    \/ T1CopyWrite(w)
    \/ T1Unlink(w)
    \/ T3Log(w)
    \/ T3Decode(w)
    \/ T3Save(w)
    \/ T2Import(w)
    \/ T2Conv(w)
    \/ Finally(w)

\* ------------------------------------------------ import of a home position
\* A float with nine decimals: d + f * 1e-9, 0 <= f < 1e9.
V(deg, nano) == [d |-> deg, f |-> nano]
NoCoord == [d |-> 0, f |-> 0 - 1]
Lt(x, y) == x.d < y.d \/ (x.d = y.d /\ x.f < y.f)
Neg(x) == IF x.f = 0 THEN V(0 - x.d, 0) ELSE V(0 - x.d - 1, 1000000000 - x.f)
Abs(x) == IF x.d < 0 THEN Neg(x) ELSE x

\* f"{x:.8f}": the text of x rounded to eight decimals, as [d, f8].
NoText == [d |-> 0, f8 |-> 0 - 1]
Fmt8(x) ==
    LET q == (x.f \div 10) + (IF x.f % 10 >= 5 THEN 1 ELSE 0)
    IN  IF q = 100000000 THEN [d |-> x.d + 1, f8 |-> 0] ELSE [d |-> x.d, f8 |-> q]

\* A JSON value or a comma-separated token: float() works on "num" only.
JNum(v) == [j |-> "num", v |-> v]
JNull == [j |-> "null", v |-> V(0, 0)]
JBad == [j |-> "bad", v |-> V(0, 0)]
Floatable(x) == x.j = "num"

Returned(lat, lon) == [raised |-> FALSE, lat |-> lat, lon |-> lon]
NoneNone == Returned(NoCoord, NoCoord)
Raised == [raised |-> TRUE, lat |-> NoCoord, lon |-> NoCoord]

\* _coords_from_plan: the first mission item holding both param5 and param6,
\* else plannedHomePosition; an exception in either block is swallowed.
FirstKeyed(items) ==
    IF \E k \in 1..Len(items) : items[k].has5 /\ items[k].has6
    THEN CHOOSE k \in 1..Len(items) :
            /\ items[k].has5 /\ items[k].has6
            /\ \A h \in 1..(k - 1) : ~(items[h].has5 /\ items[h].has6)
    ELSE 0

FromHome(php) ==
    IF php.islist /\ Len(php.vals) >= 2
          /\ Floatable(php.vals[1]) /\ Floatable(php.vals[2])
    THEN Returned(php.vals[1].v, php.vals[2].v)
    ELSE NoneNone

coords_from_plan(doc) ==
    IF ~doc.parses THEN Raised
    ELSE LET k == FirstKeyed(doc.items)
         IN  IF k # 0 /\ Floatable(doc.items[k].p5) /\ Floatable(doc.items[k].p6)
             THEN Returned(doc.items[k].p5.v, doc.items[k].p6.v)
             ELSE FromHome(doc.php)

\* str.split(",") of a coordinates text of whitespace-separated tuples: the
\* last token of a tuple and the first of the next end up in one part.
RECURSIVE PartsOf(_)
PartsOf(tuples) ==
    IF Len(tuples) = 0 THEN <<JBad>>
    ELSE IF Len(tuples) = 1 THEN tuples[1]
    ELSE SubSeq(tuples[1], 1, Len(tuples[1]) - 1) \o <<JBad>> \o Tail(PartsOf(Tail(tuples)))

\* _coords_from_kml: the first Point's coordinates, "lon,lat[,alt]", returned
\* as (lat, lon); v3.py first scans every coordinates element when the
\* document has no Point.
FromPoint_fileOrder(doc) ==
    IF doc.point = "none" \/ doc.point = "nocoord" THEN NoneNone
    ELSE IF Len(doc.ptext) = 0 THEN Raised
    ELSE LET first == doc.ptext[1]
         IN  IF Len(first) >= 2 /\ Floatable(first[1]) /\ Floatable(first[2])
             THEN Returned(first[1].v, first[2].v)
             ELSE NoneNone

FromPoint(doc) ==
    IF doc.point = "none" \/ doc.point = "nocoord" THEN NoneNone
    ELSE IF Len(doc.ptext) = 0 THEN Raised
    ELSE LET first == doc.ptext[1]
         IN  IF Len(first) >= 2 /\ Floatable(first[1]) /\ Floatable(first[2])
             THEN Returned(first[2].v, first[1].v)
             ELSE NoneNone

RECURSIVE ScanCoordinates(_)
ScanCoordinates(texts) ==
    IF Len(texts) = 0 THEN NoneNone
    ELSE LET parts == PartsOf(texts[1])
         IN  IF Len(parts) >= 2
             THEN IF Floatable(parts[2]) /\ Floatable(parts[1])
                  THEN Returned(parts[2].v, parts[1].v)
                  ELSE Raised
             ELSE ScanCoordinates(Tail(texts))

coords_from_kml(pr, doc) ==
    IF ~doc.parses THEN Raised
    ELSE IF pr = "v3" /\ doc.point = "none"
         THEN ScanCoordinates(doc.others)
         ELSE FromPoint(doc)

\* ---- the files the dialog can return
CoordVals == {V(0 - 80, 0), V(0 - 11, 999999996), V(0, 0), V(10, 4), V(80, 0), V(120, 0)}
OtherPair == <<JNum(V(1, 0)), JNum(V(2, 0))>>
Item(x, y) == [has5 |-> TRUE, has6 |-> TRUE, p5 |-> x, p6 |-> y]
NoKeys == [has5 |-> FALSE, has6 |-> FALSE, p5 |-> JNull, p6 |-> JNull]
NoHome == [islist |-> FALSE, vals |-> <<>>]
Home(vals) == [islist |-> TRUE, vals |-> vals]

PlanDoc(parses, items, php) ==
    [suffix |-> ".plan", parses |-> parses, items |-> items, php |-> php,
     point |-> "none", ptext |-> <<>>, others |-> <<>>]
KmlDoc(parses, point, ptext, others) ==
    [suffix |-> ".kml", parses |-> parses, items |-> <<>>, php |-> NoHome,
     point |-> point, ptext |-> ptext, others |-> others]
OtherDoc == [suffix |-> ".txt", parses |-> TRUE, items |-> <<>>, php |-> NoHome,
             point |-> "none", ptext |-> <<>>, others |-> <<>>]

PlanLayouts == {"item", "skip_item", "null_item_home", "null_item_item", "home",
                "home_short", "plan_empty", "plan_bad"}
KmlLayouts == {"point", "point_two", "point_short", "point_nocoord", "point_blank",
               "point_and_line", "line", "line_2d", "kml_empty", "kml_bad"}

\* a, b: the latitude and longitude the document states.
Doc(layout, a, b) ==
    CASE layout = "item" ->
            PlanDoc(TRUE, <<Item(JNum(a), JNum(b))>>, Home(OtherPair))
      [] layout = "skip_item" ->
            PlanDoc(TRUE, <<NoKeys, Item(JNum(a), JNum(b))>>, NoHome)
      [] layout = "null_item_home" ->
            PlanDoc(TRUE, <<Item(JNull, JNum(b))>>, Home(<<JNum(a), JNum(b), JNum(V(50, 0))>>))
      [] layout = "null_item_item" ->
            PlanDoc(TRUE, <<Item(JNull, JNum(b)), Item(JNum(a), JNum(b))>>, Home(OtherPair))
      [] layout = "home" ->
            PlanDoc(TRUE, <<NoKeys>>, Home(<<JNum(a), JNum(b)>>))
      [] layout = "home_short" ->
            PlanDoc(TRUE, <<>>, Home(<<JNum(a)>>))
      [] layout = "plan_empty" ->
            PlanDoc(TRUE, <<>>, NoHome)
      [] layout = "plan_bad" ->
            PlanDoc(FALSE, <<>>, NoHome)
      [] layout = "point" ->
            KmlDoc(TRUE, "text", <<<<JNum(b), JNum(a), JNum(V(50, 0))>>>>, <<>>)
      [] layout = "point_two" ->
            KmlDoc(TRUE, "text", <<<<JNum(b), JNum(a)>>, OtherPair>>, <<>>)
      [] layout = "point_short" ->
            KmlDoc(TRUE, "text", <<<<JNum(b)>>>>, <<>>)
      [] layout = "point_nocoord" ->
            KmlDoc(TRUE, "nocoord", <<>>, <<>>)
      [] layout = "point_blank" ->
            KmlDoc(TRUE, "text", <<>>, <<>>)
      [] layout = "point_and_line" ->
            KmlDoc(TRUE, "text", <<<<JNum(b), JNum(a), JNum(V(50, 0))>>>>,
                   <<<<<<JNum(V(2, 0)), JNum(V(1, 0)), JNum(V(50, 0))>>>>>>)
      [] layout = "line" ->
            KmlDoc(TRUE, "none", <<>>,
                   <<<<<<JNum(b), JNum(a), JNum(V(50, 0))>>, <<JNum(V(2, 0)), JNum(V(1, 0)), JNum(V(50, 0))>>>>>>)
      [] layout = "line_2d" ->
            KmlDoc(TRUE, "none", <<>>, <<<<<<JNum(b), JNum(a)>>, OtherPair>>>>)
      [] layout = "kml_empty" ->
            KmlDoc(TRUE, "none", <<>>, <<>>)
      [] layout = "kml_bad" ->
            KmlDoc(FALSE, "none", <<>>, <<>>)

Docs == {Doc(layout, a, b) : layout \in PlanLayouts \cup KmlLayouts,
                             a \in CoordVals, b \in CoordVals} \cup {OtherDoc}

\* lines 503-505 of sim.py: the extraction by suffix; lat = lon = None for
\* any other suffix.
Extracted(pr, doc) ==
    IF doc.suffix = ".kml" THEN coords_from_kml(pr, doc)
    ELSE IF doc.suffix = ".plan" THEN coords_from_plan(doc)
    ELSE NoneNone

\* if lat<lon (sim.py 508, v3.py 1114)
ShouldSwap_magnitude(lat, lon) == Lt(Abs(lat), Abs(lon))

ShouldSwap(lat, lon) == Lt(lat, lon)

ImIdle ==
    /\ im_pc = "off"
    /\ im_prog = "sim"
    /\ im_doc = OtherDoc
    /\ im_lat = NoCoord
    /\ im_lon = NoCoord
    /\ im_log = <<>>
    /\ im_res = "none"
    /\ lat_var = NoText
    /\ lon_var = NoText

ImInit ==
    /\ im_pc = "idle"
    /\ im_prog = "sim"
    /\ im_doc = OtherDoc
    /\ im_lat = NoCoord
    /\ im_lon = NoCoord
    /\ im_log = <<>>
    /\ im_res = "none"
    /\ lat_var = NoText
    /\ lon_var = NoText

\* _import_coords up to `if not p: return`: the dialog is cancelled, or
\* returns a file.
ImportPick ==
    /\ im_pc = "idle"
    /\ im_lat' = NoCoord
    /\ im_lon' = NoCoord
    /\ im_log' = <<>>
    /\ \E pr \in Progs :
         /\ im_prog' = pr
         /\ \/ /\ im_res' = "cancelled"
               /\ UNCHANGED <<im_pc, im_doc>>
            \/ \E doc \in Docs :
                 /\ im_doc' = doc
                 /\ im_res' = "none"
                 /\ im_pc' = "extract"
    /\ UNCHANGED <<lat_var, lon_var>>
    /\ UNCHANGED <<cvars, exvars, stvars>>

\* the try block: extraction, "Not found" warning, "Import failed" error
ImportExtract ==
    /\ im_pc = "extract"
    /\ LET r == Extracted(im_prog, im_doc)
       IN  IF r.raised
           THEN /\ im_res' = "Import failed"
                /\ im_pc' = "idle"
                /\ UNCHANGED <<im_lat, im_lon>>
           ELSE /\ im_lat' = r.lat
                /\ im_lon' = r.lon
                /\ IF r.lat = NoCoord \/ r.lon = NoCoord
                   THEN im_res' = "Not found" /\ im_pc' = "idle"
                   ELSE im_res' = "none" /\ im_pc' = "swap"
    /\ UNCHANGED <<im_prog, im_doc, im_log, lat_var, lon_var>>
    /\ UNCHANGED <<cvars, exvars, stvars>>

\* the anti-swapping heuristic and its log line
ImportSwap_silent ==
    /\ im_pc = "swap"
    /\ IF ShouldSwap(im_lat, im_lon)
       THEN /\ im_lat' = im_lon
            /\ im_lon' = im_lat
            /\ UNCHANGED im_log
       ELSE UNCHANGED <<im_lat, im_lon, im_log>>
    /\ im_pc' = "set"
    /\ UNCHANGED <<im_prog, im_doc, im_res, lat_var, lon_var>>
    /\ UNCHANGED <<cvars, exvars, stvars>>

ImportSwap ==
    /\ im_pc = "swap"
    /\ IF ShouldSwap(im_lat, im_lon)
       THEN /\ im_lat' = im_lon
            /\ im_lon' = im_lat
            /\ im_log' = Append(im_log, "swapped")
       ELSE UNCHANGED <<im_lat, im_lon, im_log>>
    /\ im_pc' = "set"
    /\ UNCHANGED <<im_prog, im_doc, im_res, lat_var, lon_var>>
    /\ UNCHANGED <<cvars, exvars, stvars>>

\* lat_var.set, lon_var.set and the "[INFO] Imported coordinates" line
ImportSet ==
    /\ im_pc = "set"
    /\ lat_var' = Fmt8(im_lat)
    /\ lon_var' = Fmt8(im_lon)
    /\ im_log' = Append(im_log, "imported")
    /\ im_res' = "Imported"
    /\ im_pc' = "idle"
    /\ UNCHANGED <<im_prog, im_doc, im_lat, im_lon>>
    /\ UNCHANGED <<cvars, exvars, stvars>>

NextImport == ImportPick \/ ImportExtract \/ ImportSwap \/ ImportSet

\* ------------------------------------------- start and stop of the simulation
\* What the user can have typed into a coordinate field: a number with up to
\* eight decimals, nothing, or something float() rejects.
BadText == [d |-> 0, f8 |-> 0 - 2]
TypedTexts == {Fmt8(v) : v \in CoordVals} \cup {NoText, BadText}

\* float(text)
Parses(t) == t.f8 >= 0
ParseText(t) == V(t.d, t.f8 * 10)

\* sim.py 610: assert -90<=lat_f<=90 and -180<=lon_f<=180
Le(x, y) == ~Lt(y, x)
RangeOk(lat, lon) ==
    /\ Le(V(0 - 90, 0), lat) /\ Le(lat, V(90, 0))
    /\ Le(V(0 - 180, 0), lon) /\ Le(lon, V(180, 0))

NoLaunch == [lat |-> NoCoord, lon |-> NoCoord]
Launch(lat, lon) == [lat |-> lat, lon |-> lon]
Thread(kind, lat, lon) == [kind |-> kind, at |-> "spawned", lat |-> lat, lon |-> lon]

\* _set_controls(running)
set_controls(running) ==
    /\ start_btn' = IF running THEN "disabled" ELSE "normal"
    /\ stop_btn' = IF running THEN "normal" ELSE "disabled"

StIdle ==
    /\ st_prog = "sim"
    /\ proc = "None"
    /\ is_running = FALSE
    /\ start_btn = "normal"
    /\ stop_btn = "disabled"
    /\ seqs = <<>>
    /\ home = NoLaunch
    /\ st_res = "off"
    /\ st_log = <<>>

\* After _build_ui: Start enabled, Stop disabled, nothing running.
StInit ==
    /\ st_prog \in Progs
    /\ proc = "None"
    /\ is_running = FALSE
    /\ start_btn = "normal"
    /\ stop_btn = "disabled"
    /\ seqs = <<>>
    /\ home = NoLaunch
    /\ st_res = "none"
    /\ st_log = <<>>

\* The coordinate fields as the user left them before pressing Start.
ImTyped ==
    /\ im_pc = "off"
    /\ im_prog = "sim"
    /\ im_doc = OtherDoc
    /\ im_lat = NoCoord
    /\ im_lon = NoCoord
    /\ im_log = <<>>
    /\ im_res = "none"
    /\ lat_var \in TypedTexts
    /\ lon_var \in TypedTexts

\* sim.py _start: the whole handler runs on the main thread.
StartSim ==
    /\ st_prog = "sim"
    /\ IF proc # "None"
       THEN /\ st_res' = "Already running"
            /\ st_log' = <<>>
            /\ UNCHANGED <<proc, start_btn, stop_btn, home>>
       ELSE \E dirOk \in BOOLEAN, restOk \in BOOLEAN,
               popen \in {"ok", "FileNotFoundError", "Exception"} :
              IF ~dirOk
              THEN /\ st_res' = "Missing folder"
                   /\ st_log' = <<>>
                   /\ UNCHANGED <<proc, start_btn, stop_btn, home>>
              ELSE IF ~(/\ Parses(lat_var) /\ Parses(lon_var)
                        /\ RangeOk(ParseText(lat_var), ParseText(lon_var)))
              THEN /\ st_res' = "Invalid location"
                   /\ st_log' = <<>>
                   /\ UNCHANGED <<proc, start_btn, stop_btn, home>>
              ELSE IF ~restOk
              THEN /\ st_res' = "Invalid speed or altitude"
                   /\ st_log' = <<>>
                   /\ UNCHANGED <<proc, start_btn, stop_btn, home>>
              ELSE IF popen # "ok"
              THEN /\ st_res' = IF popen = "FileNotFoundError"
                                THEN "Missing toolchain" ELSE "Failed to start"
                   /\ st_log' = <<>>
                   /\ UNCHANGED <<proc, start_btn, stop_btn, home>>
              ELSE /\ proc' = "Popen"
                   /\ home' = Launch(ParseText(lat_var), ParseText(lon_var))
                   /\ st_log' = <<"starting">>
                   /\ set_controls(TRUE)
                   /\ st_res' = "started"
    /\ UNCHANGED <<st_prog, is_running, seqs>>

\* v3.py _start: the tests run on the main thread, the launch in a new thread.
StartV3 ==
    /\ st_prog = "v3"
    /\ IF is_running
       THEN /\ st_res' = "Running"
            /\ st_log' = <<>>
            /\ UNCHANGED seqs
       ELSE \E dirOk \in BOOLEAN :
              IF ~dirOk
              THEN /\ st_res' = "Invalid folder"
                   /\ st_log' = <<>>
                   /\ UNCHANGED seqs
              ELSE IF ~(Parses(lat_var) /\ Parses(lon_var))
              THEN /\ st_res' = "Invalid numeric inputs"
                   /\ st_log' = <<>>
                   /\ UNCHANGED seqs
              ELSE LET lat == ParseText(lat_var)
                       lon == ParseText(lon_var)
                   IN  /\ Len(seqs) < MaxSeq
                       /\ st_log' = IF Lt(lat, lon) THEN <<"swap warning">> ELSE <<>>
                       /\ seqs' = Append(seqs,
                                     IF Lt(lat, lon) THEN Thread("start", lon, lat)
                                     ELSE Thread("start", lat, lon))
                       /\ st_res' = "started"
    /\ UNCHANGED <<st_prog, proc, is_running, start_btn, stop_btn, home>>

Start(ev) ==
    /\ Invokes(ev, start_btn)
    /\ (StartSim \/ StartV3)
    /\ UNCHANGED <<cvars, exvars, imvars>>

\* sim.py _stop
StopSim ==
    /\ st_prog = "sim"
    /\ IF proc = "None"
       THEN /\ st_res' = "not running"
            /\ st_log' = <<>>
            /\ UNCHANGED <<proc, start_btn, stop_btn>>
       ELSE /\ proc' = "None"
            /\ set_controls(FALSE)
            /\ st_log' = <<"stopped">>
            /\ st_res' = "stopped"
    /\ UNCHANGED <<st_prog, is_running, seqs, home>>

\* v3.py _stop: a confirmation, then the stop sequence in a new thread.
StopV3 ==
    /\ st_prog = "v3"
    /\ \E yes \in BOOLEAN :
         IF ~yes
         THEN /\ st_res' = "stop declined"
              /\ UNCHANGED seqs
         ELSE /\ Len(seqs) < MaxSeq
              /\ seqs' = Append(seqs, Thread("stop", NoCoord, NoCoord))
              /\ st_res' = "stopping"
    /\ st_log' = <<>>
    /\ UNCHANGED <<st_prog, proc, is_running, start_btn, stop_btn, home>>

Stop(ev) ==
    /\ Invokes(ev, stop_btn)
    /\ (StopSim \/ StopV3)
    /\ UNCHANGED <<cvars, exvars, imvars>>

At(t, kind, at) == t <= Len(seqs) /\ seqs[t].kind = kind /\ seqs[t].at = at
Goto(t, at) == seqs' = [seqs EXCEPT ![t].at = at]

\* _run_start_sequence, v3.py 1172: self.is_running = True
SeqFlag(t) ==
    /\ At(t, "start", "spawned")
    /\ is_running' = TRUE
    /\ Goto(t, "flag")
    /\ UNCHANGED <<st_prog, proc, start_btn, stop_btn, home, st_res, st_log>>
    /\ UNCHANGED <<cvars, exvars, imvars>>

\* v3.py 1173: self._set_controls(True)
SeqControls(t) ==
    /\ At(t, "start", "flag")
    /\ set_controls(TRUE)
    /\ Goto(t, "up")
    /\ UNCHANGED <<st_prog, proc, is_running, home, st_res, st_log>>
    /\ UNCHANGED <<cvars, exvars, imvars>>

\* v3.py 1176-1187: the containers are started and Redis is looked for
SeqUp(t) ==
    /\ At(t, "start", "up")
    /\ \E redis \in BOOLEAN : Goto(t, IF redis THEN "inject" ELSE "no_redis")
    /\ UNCHANGED <<st_prog, proc, is_running, start_btn, stop_btn, home, st_res, st_log>>
    /\ UNCHANGED <<cvars, exvars, imvars>>

\* v3.py 1188-1191: Redis not found
SeqNoRedisFlag(t) ==
    /\ At(t, "start", "no_redis")
    /\ is_running' = FALSE
    /\ Goto(t, "no_redis_controls")
    /\ UNCHANGED <<st_prog, proc, start_btn, stop_btn, home, st_res, st_log>>
    /\ UNCHANGED <<cvars, exvars, imvars>>

SeqNoRedisControls(t) ==
    /\ At(t, "start", "no_redis_controls")
    /\ set_controls(FALSE)
    /\ Goto(t, "done")
    /\ UNCHANGED <<st_prog, proc, is_running, home, st_res, st_log>>
    /\ UNCHANGED <<cvars, exvars, imvars>>

\* v3.py 1192-1231: the thread's lat and lon are written to Redis, PX4 is
\* restarted and the simulation is live.
SeqInject(t) ==
    /\ At(t, "start", "inject")
    /\ home' = Launch(seqs[t].lat, seqs[t].lon)
    /\ Goto(t, "done")
    /\ UNCHANGED <<st_prog, proc, is_running, start_btn, stop_btn, st_res, st_log>>
    /\ UNCHANGED <<cvars, exvars, imvars>>

StartSeq(t) ==
    \/ SeqFlag(t)
    \/ SeqControls(t)
    \/ SeqUp(t)
    \/ SeqNoRedisFlag(t)
    \/ SeqNoRedisControls(t)
    \/ SeqInject(t)

\* _run_stop_sequence, v3.py 1272-1284: the containers are stopped
StopDown(t) ==
    /\ At(t, "stop", "spawned")
    /\ Goto(t, "down")
    /\ UNCHANGED <<st_prog, proc, is_running, start_btn, stop_btn, home, st_res, st_log>>
    /\ UNCHANGED <<cvars, exvars, imvars>>

\* v3.py 1287: self.is_running = False
StopFlag(t) ==
    /\ At(t, "stop", "down")
    /\ is_running' = FALSE
    /\ Goto(t, "flag")
    /\ UNCHANGED <<st_prog, proc, start_btn, stop_btn, home, st_res, st_log>>
    /\ UNCHANGED <<cvars, exvars, imvars>>

\* v3.py 1288: self._set_controls(False)
StopControls(t) ==
    /\ At(t, "stop", "flag")
    /\ set_controls(FALSE)
    /\ Goto(t, "done")
    /\ UNCHANGED <<st_prog, proc, is_running, home, st_res, st_log>>
    /\ UNCHANGED <<cvars, exvars, imvars>>

StopSeq(t) == StopDown(t) \/ StopFlag(t) \/ StopControls(t)

NextStart ==
    \/ \E ev \in UiEvents : Start(ev) \/ Stop(ev)
    \/ \E t \in 1..MaxSeq : StartSeq(t) \/ StopSeq(t)

Init == ConvInit /\ ExIdle /\ ImIdle /\ StIdle

\* Two conversions raced against the same output directory, one per thread.
RaceConvert(w) == conv[w] = 0 /\ Convert(w)
Next == \E w \in Workers : RaceConvert(w) \/ Run(w)
Spec == Init /\ [][Next]_vars

\* One conversion at a time: the caller serialises its requests.
NextSeq == Convert(1) \/ Run(1)
SpecSeq == Init /\ [][NextSeq]_vars

\* One request and its thread, which is always scheduled again: the
\* subprocess returns, the file system calls return and the status dialog is
\* dismissed.
NextOne == RaceConvert(1) \/ Run(1)
SpecOneFair == Init /\ [][NextOne]_vars /\ WF_vars(Run(1))

InitExtract == ExEntry /\ ConvIdle /\ ImIdle /\ StIdle
SpecExtract == InitExtract /\ [][NextExtract]_vars

InitImport == ImInit /\ ConvIdle /\ ExIdle /\ StIdle
SpecImport == InitImport /\ [][NextImport]_vars

InitStart == StInit /\ ConvIdle /\ ExIdle /\ ImTyped
SpecStart == InitStart /\ [][NextStart]_vars

\* ===================================================================== claims
Finished(w) == pc[w] = "finally"
Failed(w) == Finished(w) /\ status[w].kind = "error"
Succeeded(w) == Finished(w) /\ status[w].kind = "ok"
InTrace(w, t) == \E k \in 1..Len(trace[w]) : trace[w][k] = t

\* C1 (as claimed): the tiers are attempted in the order 1, 2, 3: a conversion
\* whose tier 1 did not succeed attempts tier 2, one whose tier 2 did not
\* succeed attempts tier 3, and the tiers attempted are strictly increasing.
C1_TiersInOrder ==
    \A w \in Workers :
        Finished(w) =>
            /\ \A k \in 1..(Len(trace[w]) - 1) : trace[w][k] < trace[w][k + 1]
            /\ (InTrace(w, 1) /\ ~(status[w].kind = "ok" /\ status[w].tier = 1))
                  => InTrace(w, 2)
            /\ (InTrace(w, 2) /\ ~(status[w].kind = "ok" /\ status[w].tier = 2))
                  => InTrace(w, 3)

\* C2 (as claimed): a conversion ends in Failure only if the failure was
\* raised by the tier-3 fallback.
C2_FailureOnlyFromFallback ==
    \A w \in Workers : Failed(w) => status[w].tier = 3

\* C3 (as claimed): two conversions raced against one output directory never
\* hold the same canonical path, and the file a conversion reports as created
\* does not hold what the other conversion produced.
C3_RaceSafe ==
    /\ \A w1 \in Workers, w2 \in Workers :
          (w1 # w2 /\ tgt[w1] # NoPath) => tgt[w1] # tgt[w2]
    /\ \A w \in Workers, w2 \in Workers :
          (Succeeded(w) /\ w2 # w /\ conv[w2] # 0)
             => files[status[w].name].by # conv[w2]

\* C4 (as claimed): the name chosen is the first free one of <stem>.kml,
\* <stem>-1.kml, ..., it does not exist when chosen, and no file that was in
\* the directory before the conversions has its content replaced.
FirstFree(fs) ==
    CHOOSE i \in 0..NameMax :
        /\ ~Exists(fs, Canon(i))
        /\ \A j \in 0..(i - 1) : Exists(fs, Canon(j))

C4_FirstFreeNameNoOverwrite ==
    [][ /\ \A w \in Workers :
              (tgt'[w] # tgt[w] /\ tgt'[w] # NoPath)
                 => (tgt'[w] = Canon(FirstFree(files)) /\ ~Exists(files, tgt'[w]))
        /\ \A q \in Paths : files[q].by = 0 => files'[q] = files[q]
      ]_vars

\* C5: conversions run one after the other, all succeeding, report the free
\* names in order (<stem>.kml, <stem>-1.kml, <stem>-2.kml when none of them was
\* there before), and a reported output is never modified afterwards.
FreeAtStart == {i \in 0..NameMax : files[Canon(i)] # PreExisting}
NthFree(k) ==
    CHOOSE i \in FreeAtStart : Cardinality({j \in FreeAtStart : j < i}) = k - 1
AllOk(k) == \A h \in 1..k : reports[h].kind = "ok"

C6_NoLeftovers ==
    \A w \in Workers :
        (Failed(w) \/ pc[w] \in {"t3_log", "t3_name", "t3_decode"})
            => \A q \in Paths : files[q].by # conv[w]

\* C7: a log whose selected topic has no sample with finite latitude and
\* longitude makes the fallback raise EmptyTrack before anything is written:
\* the conversion ends in Failure and nothing is at the chosen path.
RawFinite(x) == x.k = "num"
ZeroFinite(list) ==
    LET rec == SelectTopic(list)
    IN  /\ ~NoPositionTopic(rec)
        /\ \A j \in 1..Len(rec.lat) : ~(RawFinite(rec.lat[j]) /\ RawFinite(rec.lon[j]))

C7_EmptyTrackFails ==
    \A w \in Workers :
        (pc[w] \in {"t3_save", "finally"} /\ ulog[w] # <<>> /\ ZeroFinite(ulog[w]))
            => /\ Failed(w)
               /\ status[w].tier = 3
               /\ status[w].reason = "EmptyTrack"
               /\ ~Exists(files, tgt[w])
               /\ \A q \in Paths : ~(files[q].by = conv[w] /\ files[q].tier = 3)

C7_Witness ==
    \E w \in Workers :
        /\ Failed(w)
        /\ status[w].reason = "EmptyTrack"
        /\ ulog[w] = DataList("gpos", <<"badlat", "badlon">>, TRUE)
        /\ tgt[w] = Canon(1)

\* ------------------------------------------------- claims about the decoder
ExDone == ex_pc \in {"ok", "EmptyTrack"}
ExRunning == ex_pc = "loop" \/ ExDone
Idx(k) == SourceIndex(ex_coords[k])
TrackIndices == [k \in 1..Len(ex_coords) |-> Idx(k)]
FiniteAt(j) == RawFinite(ex_rec.lat[j + 1]) /\ RawFinite(ex_rec.lon[j + 1])
FiniteCount == Cardinality({j \in 0..(Len(ex_rec.lat) - 1) : FiniteAt(j)})
CeilDiv(a, b) == (a + b - 1) \div b
IsScenario == ex_list = ScenarioList /\ ex_stride = DefaultStride

\* C8 (as claimed): only the indices 0, S, 2S, ... are considered, so after a
\* dropped sample the next one considered is at the next multiple of S; the
\* 12-sample scenario yields the samples at indices 0 and 10.
C8_VisitsMultiplesOfStride ==
    /\ (ex_pc = "loop" /\ ex_i < Len(ex_rec.lat) /\ ex_i - ex_last >= ex_stride)
          => ex_i % ex_stride = 0
    /\ (ex_pc = "ok" /\ IsScenario) => TrackIndices = <<0, 10>>

\* C8 (amended): the stride is counted from the last KEPT sample. Kept samples
\* are at least S indices apart, a finite sample is passed over only when it
\* is less than S past a kept one, and a dropped sample leaves the counter
\* alone, so the very next index is considered; the scenario yields the
\* samples at indices 0, 6 and 11.
C8_StrideFromLastKept ==
    ExRunning =>
        /\ \A k \in 1..(Len(ex_coords) - 1) : Idx(k + 1) - Idx(k) >= ex_stride
        /\ \A j \in 0..(ex_i - 1) :
              FiniteAt(j) =>
                \/ \E k \in 1..Len(ex_coords) : Idx(k) = j
                \/ \E k \in 1..Len(ex_coords) : Idx(k) < j /\ j - Idx(k) < ex_stride
        /\ ex_last = IF ex_coords = <<>> THEN 0 - ex_stride ELSE Idx(Len(ex_coords))
        /\ (ex_pc = "ok" /\ IsScenario) => TrackIndices = <<0, 6, 11>>

C8_Witness ==
    /\ ex_pc = "ok"
    /\ IsScenario
    /\ ~FiniteAt(5)
    /\ TrackIndices = <<0, 6, 11>>

\* C9 (as claimed): with N finite samples in the global-position topic the
\* Track has at most ceil(N/S) samples.
C9_AtMostCeilFinite ==
    (ExDone /\ ex_rec.topic = "vehicle_global_position")
        => Len(ex_coords) <= CeilDiv(FiniteCount, ex_stride)

\* C9 (amended): the Track has at most ceil(L/S) samples, L being the number
\* of samples of the topic, finite or not, and at most N; it has exactly
\* ceil(N/S) when every sample is finite.
C9_AtMostCeilLength ==
    (ExDone /\ ex_rec.topic = "vehicle_global_position")
        => /\ Len(ex_coords) <= CeilDiv(Len(ex_rec.lat), ex_stride)
           /\ Len(ex_coords) <= FiniteCount
           /\ FiniteCount = Len(ex_rec.lat)
                 => Len(ex_coords) = CeilDiv(FiniteCount, ex_stride)

C9_Witness ==
    /\ ex_pc = "ok"
    /\ ex_rec.topic = "vehicle_global_position"
    /\ ex_stride = 2
    /\ Len(ex_rec.lat) = 3
    /\ FiniteCount = 2
    /\ Len(ex_coords) = 2

\* C10: every Track sample has finite latitude and longitude and comes from a
\* source sample whose latitude and longitude are finite, the samples are in
\* increasing source order, and the altitude is 0.0 when the topic has no
\* altitude channel (or the altitude is not finite).
C10_TrackFiniteOrdered ==
    ExRunning =>
        /\ \A k \in 1..Len(ex_coords) :
              LET c == ex_coords[k]
                  j == Idx(k)
              IN  /\ IsFinite(c[1]) /\ IsFinite(c[2])
                  /\ j \in 0..(Len(ex_rec.lat) - 1)
                  /\ FiniteAt(j)
                  /\ c[1].n = ex_rec.lon[j + 1].n /\ c[1].d = ex_rec.scale
                  /\ c[2].n = ex_rec.lat[j + 1].n /\ c[2].d = ex_rec.scale
                  /\ ~ex_rec.hasalt => c[3] = Zero
                  /\ (ex_rec.hasalt /\ ~RawFinite(ex_rec.alt[j + 1])) => c[3] = Zero
                  /\ (ex_rec.hasalt /\ RawFinite(ex_rec.alt[j + 1]))
                        => c[3].n = ex_rec.alt[j + 1].n
        /\ \A k \in 1..(Len(ex_coords) - 1) : Idx(k) < Idx(k + 1)

C10_Witness ==
    /\ ex_pc = "ok"
    /\ ~ex_rec.hasalt
    /\ Len(ex_coords) = 2
    /\ Len(ex_rec.lat) = 4
    /\ ~FiniteAt(0)
    /\ ex_coords[1][3] = Zero

\* --------------------------------------------- claims about topic selection
HasTopic(list, name) == \E j \in 1..Len(list) : list[j].name = name
ExSelected == ex_pc \in {"loop", "ok", "EmptyTrack", "NoPositionTopic"}
ReadFrom(name) ==
    \E j \in 1..Len(ex_list) :
        /\ ex_list[j].name = name
        /\ ex_rec.topic = name
        /\ ex_rec.lat = ex_list[j].lat
        /\ ex_rec.lon = ex_list[j].lon
        /\ ex_rec.alt = ex_list[j].alt

\* C11: one topic is read per conversion: vehicle_global_position with scale
\* 1 whenever the log has it, vehicle_gps_position with latitude and longitude
\* divided by 1e7 only when the log has no vehicle_global_position; every
\* Track sample carries the scale of that one topic.
C11_OneTopicGlobalPreferred ==
    ExSelected =>
        /\ HasTopic(ex_list, "vehicle_global_position")
              => (ReadFrom("vehicle_global_position") /\ ex_rec.scale = 1)
        /\ (~HasTopic(ex_list, "vehicle_global_position")
               /\ HasTopic(ex_list, "vehicle_gps_position"))
              => (ReadFrom("vehicle_gps_position") /\ ex_rec.scale = GpsScale)
        /\ ex_rec.topic = "vehicle_gps_position"
              => ~HasTopic(ex_list, "vehicle_global_position")
        /\ \A k \in 1..Len(ex_coords) :
              /\ ex_coords[k][1].d = ex_rec.scale
              /\ ex_coords[k][2].d = ex_rec.scale
              /\ ex_coords[k][2].n = ex_rec.lat[Idx(k) + 1].n

C11_Witness ==
    /\ ex_pc = "ok"
    /\ Len(ex_list) = 2
    /\ ex_list[1].name = "vehicle_gps_position"
    /\ ex_rec.topic = "vehicle_global_position"
    /\ Len(ex_rec.lat) = 3
    /\ Len(ex_coords) = 2
    /\ ex_coords[2][1].d = 1

\* C12 (as claimed): NoPositionTopic is raised when the log has neither
\* topic, and never for a log holding a vehicle_gps_position topic with lat and
\* lon fields, whatever its vehicle_global_position topic looks like.
HasUsableGps(list) ==
    \E j \in 1..Len(list) :
        /\ list[j].name = "vehicle_gps_position"
        /\ list[j].haslat
        /\ list[j].haslon

C12_GpsLogNeverNoTopic ==
    ExSelected =>
        /\ (~HasTopic(ex_list, "vehicle_global_position")
               /\ ~HasTopic(ex_list, "vehicle_gps_position"))
              => ex_pc = "NoPositionTopic"
        /\ HasUsableGps(ex_list) => ex_pc # "NoPositionTopic"

\* ------------------------------------------- claims about the tier handling
T1SuccessPcs == {"t1_name", "t1_rename", "t1_copy_read", "t1_copy_write", "t1_unlink"}
T3Pcs == {"t3_name", "t3_decode", "t3_save"}
T2Pcs == {"t2_name", "t2_conv"}
Tier1Ok(w) == Succeeded(w) /\ status[w].tier = 1
CountOf(seq, x) == Cardinality({k \in 1..Len(seq) : seq[k] = x})

\* C13: tier 1 counts as successful exactly when the subprocess returned 0 and
\* track.kml exists in the output directory after the run; with a nonzero
\* return code or without track.kml the conversion goes on to the fallback.
C13_Tier1SuccessIffExitZeroAndFile ==
    /\ [](\A w \in Workers :
            /\ pc[w] \in T1SuccessPcs => (p[w] = 0 /\ trace[w] = <<1>>)
            /\ Tier1Ok(w) => (p[w] = 0 /\ trace[w] = <<1>>)
            /\ pc[w] \in T3Pcs => trace[w] = <<1, 3>>)
    /\ [][\A w \in Workers :
            /\ (pc[w] = "t1_check" /\ pc'[w] # pc[w])
                 => IF p[w] = 0 /\ files[TrackKml] # Absent
                    THEN pc'[w] = "t1_name" /\ trace'[w] = trace[w]
                    ELSE pc'[w] = "t3_log"
            /\ (pc[w] = "t3_log" /\ pc'[w] # pc[w])
                 => (pc'[w] = "t3_name" /\ trace'[w] = Append(trace[w], 3))]_vars

C13_Witness ==
    \E w \in Workers :
        /\ pc[w] = "t3_name"
        /\ p[w] = 0
        /\ ~Exists(files, TrackKml)
        /\ trace[w] = <<1, 3>>
        /\ status[w].kind = "converting"

\* C14 (as claimed): after a successful tier 1 the reported file holds what
\* track.kml held and track.kml is gone, on the rename path and on the
\* copy-then-delete path alike.
C14_TrackMovedAndGone ==
    \A w \in Workers :
        Tier1Ok(w) =>
            /\ Exists(files, status[w].name)
            /\ files[status[w].name].tier = 1
            /\ ~Exists(files, TrackKml)

\* C14 (amended): after a successful tier 1 the reported file holds what
\* track.kml held when it was renamed or read. track.kml is gone when the
\* rename succeeded or when the unlink after the copy succeeded; a failing
\* unlink is ignored, track.kml then stays with its content and the
\* conversion is still reported as created.
C14_TrackMovedUnlinkBestEffort ==
    /\ [](\A w \in Workers :
            Tier1Ok(w) =>
                /\ Exists(files, status[w].name)
                /\ files[status[w].name].tier = 1
                /\ status[w].name = tgt[w]
                /\ data[w] = Absent => ~Exists(files, TrackKml)
                /\ data[w] # Absent =>
                      /\ files[tgt[w]] = data[w]
                      /\ files[TrackKml] \in {Absent, data[w]})
    /\ [][\A w \in Workers :
            /\ (pc[w] = "t1_rename" /\ pc'[w] = "finally")
                 => /\ files'[tgt[w]] = files[TrackKml]
                    /\ files'[TrackKml] = Absent
                    /\ status'[w].kind = "ok"
            /\ (pc[w] = "t1_unlink" /\ pc'[w] # pc[w])
                 => /\ pc'[w] = "finally"
                    /\ status'[w].kind = "ok"
                    /\ files'[tgt[w]] = files[tgt[w]]]_vars

C14_Witness ==
    \E w \in Workers :
        /\ Tier1Ok(w)
        /\ data[w] # Absent
        /\ files[tgt[w]] = data[w]
        /\ files[TrackKml] = data[w]
        /\ data[w].by = conv[w]

\* C15: the step from the failed tier 1 to the fallback logs one line, and the
\* line is in the log before the fallback does anything (_unique_name, the
\* decoder, the save); a conversion that stays in tier 1 logs none. v3.py logs
\* its "[TOOL] Importing" line before the library is imported or called.
C15_TransitionLoggedFirst ==
    \A w \in Workers :
        /\ pc[w] \in T3Pcs => events[w] = <<"fallback">>
        /\ (pc[w] \in T3Pcs \/ Finished(w)) =>
              CountOf(events[w], "fallback") = Len(trace[w]) - 1
        /\ pc[w] \in T1SuccessPcs \cup {"t1_check", "t3_log"} => events[w] = <<>>
        /\ pc[w] \in T2Pcs => events[w] = <<"importing">>

C15_Witness ==
    \E w \in Workers :
        /\ pc[w] = "t3_decode"
        /\ p[w] = 1
        /\ trace[w] = <<1, 3>>
        /\ events[w] = <<"fallback">>
        /\ tgt[w] = Canon(0)

\* C16 (as claimed): when the tool ran and tier 1 failed (nonzero return code
\* or no track.kml), the log holds the tool's captured stdout/stderr besides
\* the fallback line.
C16_ToolOutputLogged ==
    \A w \in Workers :
        (pc[w] \in T3Pcs \/ (Finished(w) /\ InTrace(w, 3)))
            => /\ CountOf(events[w], "fallback") = 1
               /\ CountOf(events[w], "tool output") >= 1

\* C17: a failed check of the input file or the output folder is reported
\* without a worker being started, so no tier runs; a failure raised inside the
\* worker (subprocess, read_bytes, write_bytes, save, the library call) is
\* reported as the conversion error and no tier is attempted after it.
IsFailure(st) == st.kind \in {"rejected", "error"}

C18_LibraryWritesCanonicalDirectly ==
    \A w \in Workers :
        (Succeeded(w) /\ cmd[w] # "ulog2kml" /\ status[w].tier \in {1, 2})
            => /\ status[w].tier = 2
               /\ trace[w] = <<2>>
               /\ files[status[w].name] = Written(conv[w], 2, TRUE)
               /\ files[TrackKml].by # conv[w]

\* ---------------------------------------------------- claims about the import
ImDone == im_pc = "idle" /\ im_res = "Imported"
ImExt == Extracted(im_prog, im_doc)
Handed == <<lat_var, lon_var>>

\* C19 (as claimed): the pair handed over after an import is (lat, lon) when
\* |lat| >= |lon| and (lon, lat) when |lat| < |lon|, whatever the signs.
C19_SwapByMagnitude ==
    ImDone =>
        Handed = IF Lt(Abs(ImExt.lat), Abs(ImExt.lon))
                 THEN <<Fmt8(ImExt.lon), Fmt8(ImExt.lat)>>
                 ELSE <<Fmt8(ImExt.lat), Fmt8(ImExt.lon)>>

\* C19 (amended): the values are compared as signed numbers: the pair handed
\* over is (lat, lon) when lat >= lon and (lon, lat) when lat < lon, so the
\* larger value always lands in the latitude field; each is written with
\* eight decimals.
C19_SwapBySignedOrder ==
    ImDone =>
        /\ Handed = IF Lt(ImExt.lat, ImExt.lon)
                    THEN <<Fmt8(ImExt.lon), Fmt8(ImExt.lat)>>
                    ELSE <<Fmt8(ImExt.lat), Fmt8(ImExt.lon)>>
        /\ ~Lt(im_lat, im_lon)
        /\ Handed = <<Fmt8(im_lat), Fmt8(im_lon)>>

C19_Witness ==
    /\ ImDone
    /\ im_doc.suffix = ".plan"
    /\ ImExt.lat = V(0 - 80, 0)
    /\ ImExt.lon = V(10, 4)
    /\ lat_var = [d |-> 10, f8 |-> 0]
    /\ lon_var = [d |-> 0 - 80, f8 |-> 0]

\* C20: an import logs the swap line once when it swaps and not at all when
\* it does not (or when it ends without coordinates); the pair is never
\* swapped without the line.
SwapApplied ==
    /\ im_lat = ImExt.lon
    /\ im_lon = ImExt.lat
    /\ ImExt.lat # ImExt.lon

C20_OneNoticePerSwap ==
    /\ (im_pc = "set" \/ ImDone) =>
          /\ CountOf(im_log, "swapped") = IF SwapApplied THEN 1 ELSE 0
          /\ ~SwapApplied => (im_lat = ImExt.lat /\ im_lon = ImExt.lon)
    /\ im_res \in {"cancelled", "Not found", "Import failed"} =>
          CountOf(im_log, "swapped") = 0
    /\ ImDone => CountOf(im_log, "imported") = 1

C20_Witness ==
    /\ ImDone
    /\ im_doc.suffix = ".kml"
    /\ im_prog = "v3"
    /\ SwapApplied
    /\ im_log = <<"swapped", "imported">>

\* ------------------------------------------------ claims about the extraction
IsPlan == im_doc.suffix = ".plan" /\ im_doc.parses
IsKml == im_doc.suffix = ".kml" /\ im_doc.parses
ImExtractedNow == im_pc \in {"swap"} \/ im_res \in {"Not found", "Import failed"}
Numeric(x) == x.j = "num"
Qualifies(it) == it.has5 /\ it.has6 /\ Numeric(it.p5) /\ Numeric(it.p6)
HomeUsable(php) ==
    php.islist /\ Len(php.vals) >= 2 /\ Numeric(php.vals[1]) /\ Numeric(php.vals[2])

\* C22 (as claimed): a plan gives the coordinates of the first mission item,
\* in list order, that has two numeric param5/param6 values; items without
\* them or with non-numeric values are passed over; plannedHomePosition is
\* used only when no item qualifies.
C22_FirstQualifyingItem ==
    (im_pc = "swap" \/ im_res = "Not found") /\ IsPlan =>
        IF \E k \in 1..Len(im_doc.items) : Qualifies(im_doc.items[k])
        THEN LET k == CHOOSE k \in 1..Len(im_doc.items) :
                        /\ Qualifies(im_doc.items[k])
                        /\ \A h \in 1..(k - 1) : ~Qualifies(im_doc.items[h])
             IN  /\ im_pc = "swap"
                 /\ im_lat = im_doc.items[k].p5.v
                 /\ im_lon = im_doc.items[k].p6.v
        ELSE IF HomeUsable(im_doc.php)
             THEN /\ im_pc = "swap"
                  /\ im_lat = im_doc.php.vals[1].v
                  /\ im_lon = im_doc.php.vals[2].v
             ELSE im_res = "Not found"

\* C23: a KML file with a Point gives the first tuple of that Point's
\* coordinates, "lon,lat[,alt]", as (lat, lon): this is the pair the swap
\* heuristic then receives; further tuples and other coordinates elements of
\* the file are not used.
PointUsable ==
    /\ IsKml
    /\ im_doc.point = "text"
    /\ Len(im_doc.ptext) >= 1
    /\ Len(im_doc.ptext[1]) >= 2
    /\ Numeric(im_doc.ptext[1][1])
    /\ Numeric(im_doc.ptext[1][2])

C23_FirstPointLatLon ==
    /\ (im_pc = "extract" /\ PointUsable) => im_res = "none"
    /\ (im_pc # "extract" /\ PointUsable /\ im_res # "cancelled") =>
          /\ ImExt = Returned(im_doc.ptext[1][2].v, im_doc.ptext[1][1].v)
          /\ im_res \in {"none", "Imported"}
          /\ im_pc = "swap" => (im_lat = im_doc.ptext[1][2].v /\ im_lon = im_doc.ptext[1][1].v)

C23_Witness ==
    /\ im_pc = "swap"
    /\ PointUsable
    /\ Len(im_doc.ptext) = 2
    /\ im_doc.ptext[1] = <<JNum(V(80, 0)), JNum(V(10, 4))>>
    /\ im_lat = V(10, 4)
    /\ im_lon = V(80, 0)

\* C24 (as claimed): a KML file without a Point gives the first
\* "lon,lat[,alt]" tuple of the first element whose tag contains "coordinates",
\* as (lat, lon), also when the text holds several tuples.
ScanUsable ==
    /\ IsKml
    /\ im_doc.point = "none"
    /\ Len(im_doc.others) >= 1
    /\ Len(im_doc.others[1]) >= 1
    /\ Len(im_doc.others[1][1]) >= 2
    /\ Numeric(im_doc.others[1][1][1])
    /\ Numeric(im_doc.others[1][1][2])

C24_ScanFirstTuple ==
    (ImExtractedNow /\ ScanUsable) =>
        /\ im_pc = "swap"
        /\ im_lat = im_doc.others[1][1][2].v
        /\ im_lon = im_doc.others[1][1][1].v

\* C25 (as claimed): a well-formed .plan or .kml file without usable
\* coordinates ends the import with the "Not found" warning, never with
\* "Import failed", and leaves the latitude and longitude fields as they were.
NoUsableData ==
    \/ /\ IsPlan
       /\ \A k \in 1..Len(im_doc.items) : ~Qualifies(im_doc.items[k])
       /\ ~HomeUsable(im_doc.php)
    \/ /\ IsKml
       /\ ~PointUsable
       /\ \A k \in 1..Len(im_doc.others) :
             \A h \in 1..Len(im_doc.others[k]) : Len(im_doc.others[k][h]) < 2

C25_NotFoundIsWarning ==
    (ImExtractedNow /\ NoUsableData) => im_res = "Not found"

\* --------------------------------------------- claims about the worker thread
Active(w) == pc[w] \notin {"idle", "off"}

\* C26 (as claimed): at most one conversion thread is active at any time,
\* whether the convert action is triggered by a click, by Return or by space.
C26_OneWorkerAtATime ==
    Cardinality({w \in Workers : Active(w)}) <= 1

\* C27: a started conversion thread ends; by then it has reported exactly one
\* terminal status, a success or a failure, and its last step sets the convert
\* button back to normal, on every path.
C27_OneStatusThenEnabled ==
    /\ [](/\ (Active(1) /\ pc[1] # "finally") => Len(reports) = nconv - 1
          /\ pc[1] = "finally" =>
                /\ Len(reports) = nconv
                /\ status[1].conv = conv[1]
                /\ status[1].kind \in {"ok", "error"}
                /\ reports[nconv].kind = status[1].kind)
    /\ [][(pc[1] = "finally" /\ pc'[1] # "finally")
            => (pc'[1] = "idle" /\ btn' = "normal" /\ reports' = reports)]_vars
    /\ (Active(1) ~> (pc[1] = "idle" /\ btn = "normal"))

C27_Witness ==
    /\ pc[1] = "idle"
    /\ btn = "normal"
    /\ nconv = 1
    /\ Len(reports) = 1
    /\ reports[1].kind = "error"
    /\ status[1].tier = 3

\* C28 (as claimed): the file a successful tier 1 reports was written by the
\* tool run of this very conversion; a track.kml that was in the directory
\* before is neither taken as the result nor removed.
C28_Tier1FileFromThisRun ==
    \A w \in Workers :
        Tier1Ok(w) => files[status[w].name].by = status[w].conv

\* ------------------------------------------------- claims about the launch
\* C21 (as claimed): a pair typed into the fields and launched reaches the
\* simulation swapped exactly when an import of the same pair would have
\* swapped it, and unswapped otherwise.
C21_SwapAtLaunchAsOnImport ==
    home # NoLaunch =>
        LET lat == ParseText(lat_var)
            lon == ParseText(lon_var)
        IN  home = IF ShouldSwap(lat, lon) THEN Launch(lon, lat) ELSE Launch(lat, lon)

\* C29 (as claimed): in sim.py an extracted pair within -90..90 and -180..180
\* is stored, after the swap, with lat >= lon and so that _start's range test
\* accepts the stored fields.
C29_StoredPairOrderedAndAccepted ==
    (ImDone /\ im_prog = "sim" /\ RangeOk(ImExt.lat, ImExt.lon)) =>
        /\ Parses(lat_var) /\ Parses(lon_var)
        /\ Le(ParseText(lon_var), ParseText(lat_var))
        /\ RangeOk(ParseText(lat_var), ParseText(lon_var))

\* C30 (as claimed): in v3.py at most one start sequence runs at a time, and
\* no stop sequence runs while a start sequence does.
Running(kind) == {t \in 1..Len(seqs) : seqs[t].kind = kind /\ seqs[t].at # "done"}

C30_OneSequenceAtATime ==
    st_prog = "v3" =>
        /\ Cardinality(Running("start")) <= 1
        /\ Running("start") = {} \/ Running("stop") = {}

====
